---- MODULE Spec2Model ----
(***************************************************************************)
(* Model of converter.py: the JSON -> configuration-language converter.    *)
(* Text is modelled as a sequence of one-character strings, so that the    *)
(* regular expressions, the expression parser and the emitted text are     *)
(* computed character by character as the Python code computes them.       *)
(***************************************************************************)
EXTENDS Integers, Sequences

\* ------------------------------------------------------------------ text

NL == "\n"
DQ == "\""
SQ == "'"

\* Python's \s, restricted to the white space the model's texts contain.
Spaces == {" ", NL}

Digits == {"0", "1", "2", "3", "4", "5", "6", "7", "8", "9"}

\* the character class [A-Z_]
UpperOrUnderscore ==
    {"A", "B", "C", "D", "E", "F", "G", "H", "I", "J", "K", "L", "M",
     "N", "O", "P", "Q", "R", "S", "T", "U", "V", "W", "X", "Y", "Z", "_"}

Lower ==
    {"a", "b", "c", "d", "e", "f", "g", "h", "i", "j", "k", "l", "m",
     "n", "o", "p", "q", "r", "s", "t", "u", "v", "w", "x", "y", "z"}

IdentChars == UpperOrUnderscore \cup Lower \cup Digits

DigitVal(c) ==
    CASE c = "0" -> 0 [] c = "1" -> 1 [] c = "2" -> 2 [] c = "3" -> 3
      [] c = "4" -> 4 [] c = "5" -> 5 [] c = "6" -> 6 [] c = "7" -> 7
      [] c = "8" -> 8 [] c = "9" -> 9

DigitChar(d) ==
    CASE d = 0 -> "0" [] d = 1 -> "1" [] d = 2 -> "2" [] d = 3 -> "3"
      [] d = 4 -> "4" [] d = 5 -> "5" [] d = 6 -> "6" [] d = 7 -> "7"
      [] d = 8 -> "8" [] d = 9 -> "9"

\* s[from..], the empty text when from is past the end
Drop(s, from) == SubSeq(s, from, Len(s))

\* does text s carry the literal text lit at position i
StartsWithAt(s, i, lit) ==
    /\ i + Len(lit) - 1 <= Len(s)
    /\ \A k \in 1..Len(lit) : s[i + k - 1] = lit[k]

\* length of the longest run of characters of the class cls that starts at i
RECURSIVE RunLen(_, _, _)
RunLen(s, i, cls) ==
    IF i <= Len(s) /\ s[i] \in cls THEN 1 + RunLen(s, i + 1, cls) ELSE 0

\* ------------------------------------------------------ name_pattern

\* the pattern without its end anchor: a leading run of [A-Z_] is enough
NamePatternMatch_NoEndAnchor(s) == RunLen(s, 1, UpperOrUnderscore) >= 1

\* name_pattern.match(s) for ^[A-Z_]+$ : a non-empty run of [A-Z_] up to the
\* end of the text, where Python's $ also matches before one final newline.
NamePatternMatch(s) ==
    LET n == RunLen(s, 1, UpperOrUnderscore)
    IN  /\ n >= 1
        /\ \/ n = Len(s)
           \/ n = Len(s) - 1 /\ s[Len(s)] = NL

\* ------------------------------------------------- the define directive

Max(S) == CHOOSE x \in S : \A y \in S : y <= x
Min(S) == CHOOSE x \in S : \A y \in S : x <= y

\* re.match(r'\(define\s+([A-Z_]+)\s+(.+)\)', val): anchored at the start only.
\* The classes \s and [A-Z_] are disjoint, so the first two runs are maximal;
\* the second \s+ is greedy and gives characters back to (.+), which is greedy
\* in turn, never crosses a newline, and ends before the last ")" it can reach.
DefineMatch(val) ==
    LET lit == <<"(", "d", "e", "f", "i", "n", "e">>
        w1 == RunLen(val, 8, Spaces)
        nameAt == 8 + w1
        n == RunLen(val, nameAt, UpperOrUnderscore)
        wsAt == nameAt + n
        w2 == RunLen(val, wsAt, Spaces)
        Ends(q) == {r \in (q + 1)..Len(val) :
                       val[r] = ")" /\ \A j \in q..(r - 1) : val[j] # NL}
        Ks == {k \in 1..w2 : Ends(wsAt + k) # {}}
    IN  IF StartsWithAt(val, 1, lit) /\ w1 >= 1 /\ n >= 1 /\ Ks # {}
        THEN LET q == wsAt + Max(Ks)
                 r == Max(Ends(q))
             IN  [matched |-> TRUE,
                  name |-> SubSeq(val, nameAt, wsAt - 1),
                  value |-> SubSeq(val, q, r - 1)]
        ELSE [matched |-> FALSE, name |-> <<>>, value |-> <<>>]

\* str.strip()
Strip(s) ==
    LET lead == RunLen(s, 1, Spaces)
        Keep == {j \in 1..Len(s) : s[j] \notin Spaces}
    IN  IF Keep = {} THEN <<>> ELSE SubSeq(s, lead + 1, Max(Keep))

\* constants[name] = text
StorePut(store, name, text) ==
    [k \in DOMAIN store \cup {name} |-> IF k = name THEN text ELSE store[k]]

\* ------------------------------------------------ constant substitution

\* re.sub(r'!\{([A-Z_]+)\}', lambda m: constants.get(m.group(1), m.group(0)), s)
\* from position i on: one left-to-right pass over non-overlapping tokens, the
\* replacement text is not scanned again.
RECURSIVE SubstFrom(_, _, _)
SubstFrom(s, i, store) ==
    IF i > Len(s) THEN <<>>
    ELSE LET n == RunLen(s, i + 2, UpperOrUnderscore)
             isToken == /\ StartsWithAt(s, i, <<"!", "{">>)
                        /\ n >= 1
                        /\ i + 2 + n <= Len(s)
                        /\ s[i + 2 + n] = "}"
             name == SubSeq(s, i + 2, i + 1 + n)
         IN  IF isToken
             THEN (IF name \in DOMAIN store THEN store[name]
                   ELSE SubSeq(s, i, i + 2 + n))
                  \o SubstFrom(s, i + 3 + n, store)
             ELSE <<s[i]>> \o SubstFrom(s, i + 1, store)

\* the substitution with count=1: only the first token is replaced
Substitute_FirstOnly(s, store) ==
    LET IsTok(i) == LET n == RunLen(s, i + 2, UpperOrUnderscore)
                    IN  /\ StartsWithAt(s, i, <<"!", "{">>) /\ n >= 1
                        /\ i + 2 + n <= Len(s) /\ s[i + 2 + n] = "}"
        starts == {i \in 1..Len(s) : IsTok(i)}
        i == Min(starts)
        n == RunLen(s, i + 2, UpperOrUnderscore)
        name == SubSeq(s, i + 2, i + 1 + n)
    IN  IF starts = {} THEN s
        ELSE SubSeq(s, 1, i - 1)
             \o (IF name \in DOMAIN store THEN store[name] ELSE SubSeq(s, i, i + 2 + n))
             \o Drop(s, i + 3 + n)

Substitute(s, store) == SubstFrom(s, 1, store)

\* ------------------------------------------------------- Python values

\* A Python value is a record [t, n, d, s]: the type tag t, the integer n (or
\* the numerator of a float, or 0/1 for a bool), the denominator d of a float,
\* and the text s of a str.  A float is held as the exact reduced fraction n/d
\* with d > 0: this is the IEEE double exactly for the fractions the model
\* computes with (small dyadic fractions and lone decimal literals).
VInt(n) == [t |-> "int", n |-> n, d |-> 1, s |-> <<>>]
VBool(b) == [t |-> "bool", n |-> IF b THEN 1 ELSE 0, d |-> 1, s |-> <<>>]
VStr(s) == [t |-> "str", n |-> 0, d |-> 1, s |-> s]
VNone == [t |-> "none", n |-> 0, d |-> 1, s |-> <<>>]

Abs(x) == IF x < 0 THEN -x ELSE x

RECURSIVE Gcd(_, _)
Gcd(a, b) == IF b = 0 THEN a ELSE Gcd(b, a % b)

\* the float n/d (d # 0) as a reduced fraction with a positive denominator
VFloat(n, d) ==
    LET g == Gcd(Abs(n), Abs(d))
        sgn == IF d < 0 THEN -1 ELSE 1
    IN  [t |-> "float", n |-> sgn * (n \div g), d |-> sgn * (d \div g), s |-> <<>>]

IsNumber(v) == v.t \in {"int", "bool", "float"}
IsIntLike(v) == v.t \in {"int", "bool"}

\* floor(a / b) for integers, b # 0 (Python's //)
FloorDivInt(a, b) ==
    LET x == IF b < 0 THEN -a ELSE a
        y == Abs(b)
    IN  IF x >= 0 THEN x \div y ELSE -((-x + y - 1) \div y)

RECURSIVE IntPow(_, _)
IntPow(b, e) == IF e = 0 THEN 1 ELSE b * IntPow(b, e - 1)

RECURSIVE Repeat(_, _)
Repeat(s, k) == IF k <= 0 THEN <<>> ELSE s \o Repeat(s, k - 1)

Ok(v) == [ok |-> TRUE, v |-> v, exc |-> "none"]
Raise(e) == [ok |-> FALSE, v |-> VNone, exc |-> e]

\* operator.add / sub / mul on two numbers: an int when both are int or bool
Arith(op, l, r) ==
    IF IsIntLike(l) /\ IsIntLike(r)
    THEN VInt(CASE op = "Add" -> l.n + r.n
                [] op = "Sub" -> l.n - r.n
                [] op = "Mult" -> l.n * r.n)
    ELSE CASE op = "Add" -> VFloat(l.n * r.d + r.n * l.d, l.d * r.d)
           [] op = "Sub" -> VFloat(l.n * r.d - r.n * l.d, l.d * r.d)
           [] op = "Mult" -> VFloat(l.n * r.n, l.d * r.d)

\* operators[type(node.op)](left, right) for the seven entries of the table.
\* Covered: numbers; str + str; str * int and int * str.  str % x is covered
\* for texts that hold no conversion specifier (it raises TypeError); ** is
\* covered for an integral exponent.
ApplyOperator(op, l, r) ==
    CASE op \in {"Add", "Sub", "Mult"} ->
           IF IsNumber(l) /\ IsNumber(r) THEN Ok(Arith(op, l, r))
           ELSE IF op = "Add" /\ l.t = "str" /\ r.t = "str" THEN Ok(VStr(l.s \o r.s))
           ELSE IF op = "Mult" /\ l.t = "str" /\ IsIntLike(r) THEN Ok(VStr(Repeat(l.s, r.n)))
           ELSE IF op = "Mult" /\ IsIntLike(l) /\ r.t = "str" THEN Ok(VStr(Repeat(r.s, l.n)))
           ELSE Raise("TypeError")
      [] op = "Div" ->
           IF ~(IsNumber(l) /\ IsNumber(r)) THEN Raise("TypeError")
           ELSE IF r.n = 0 THEN Raise("ZeroDivisionError")
           ELSE Ok(VFloat(l.n * r.d, l.d * r.n))
      [] op = "FloorDiv" ->
           IF ~(IsNumber(l) /\ IsNumber(r)) THEN Raise("TypeError")
           ELSE IF r.n = 0 THEN Raise("ZeroDivisionError")
           ELSE IF IsIntLike(l) /\ IsIntLike(r) THEN Ok(VInt(FloorDivInt(l.n, r.n)))
           ELSE Ok(VFloat(FloorDivInt(l.n * r.d, l.d * r.n), 1))
      [] op = "Mod" ->
           IF ~(IsNumber(l) /\ IsNumber(r)) THEN Raise("TypeError")
           ELSE IF r.n = 0 THEN Raise("ZeroDivisionError")
           ELSE IF IsIntLike(l) /\ IsIntLike(r)
                THEN Ok(VInt(l.n - r.n * FloorDivInt(l.n, r.n)))
           ELSE LET q == FloorDivInt(l.n * r.d, l.d * r.n)
                IN  Ok(VFloat(l.n * r.d - q * r.n * l.d, l.d * r.d))
      [] op = "Pow" ->
           IF ~(IsNumber(l) /\ IsNumber(r)) THEN Raise("TypeError")
           ELSE IF r.n < 0 /\ l.n = 0 THEN Raise("ZeroDivisionError")
           ELSE IF IsIntLike(l) /\ IsIntLike(r) /\ r.n >= 0 THEN Ok(VInt(IntPow(l.n, r.n)))
           ELSE CASE r.d = 1 /\ r.n >= 0 ->
                       Ok(VFloat(IntPow(l.n, r.n), IntPow(l.d, r.n)))
                  [] r.d = 1 /\ r.n < 0 ->
                       Ok(VFloat(IntPow(l.d, -r.n), IntPow(l.n, -r.n)))

\* the keys of the operators table
operators == {"Add", "Sub", "Mult", "Div", "Pow", "FloorDiv", "Mod"}

\* ------------------------------------------------------------- str()

\* the decimal digits of n >= 0
RECURSIVE NatDigits(_)
NatDigits(n) ==
    IF n < 10 THEN <<DigitChar(n)>> ELSE NatDigits(n \div 10) \o <<DigitChar(n % 10)>>

IntToStr(n) == IF n < 0 THEN <<"-">> \o NatDigits(-n) ELSE NatDigits(n)

\* the digits of rem/den (rem < den) after the decimal point; the fractions
\* the model prints terminate, fuel stops the others
RECURSIVE FracDigits(_, _, _)
FracDigits(rem, den, fuel) ==
    IF rem = 0 \/ fuel = 0 THEN <<>>
    ELSE <<DigitChar((rem * 10) \div den)>> \o FracDigits((rem * 10) % den, den, fuel - 1)

MaxFracDigits == 6

\* repr of a float in positional notation (1e-4 <= |x| < 1e16, or x = 0)
FloatToStr(v) ==
    LET a == Abs(v.n)
        frac == FracDigits(a % v.d, v.d, MaxFracDigits)
    IN  (IF v.n < 0 THEN <<"-">> ELSE <<>>)
        \o NatDigits(a \div v.d) \o <<".">>
        \o (IF frac = <<>> THEN <<"0">> ELSE frac)

\* str(value)
PyStr(v) ==
    CASE v.t = "int" -> IntToStr(v.n)
      [] v.t = "float" -> FloatToStr(v)
      [] v.t = "str" -> v.s
      [] v.t = "bool" -> IF v.n = 1 THEN <<"T", "r", "u", "e">>
                         ELSE <<"F", "a", "l", "s", "e">>
      [] v.t = "none" -> <<"N", "o", "n", "e">>

\* ------------------------------------------------------- the tokenizer

\* A token is a record [k, o, s, v]: the kind k ("num", "str", "name", "op"),
\* the operator text o, the text s of a name or string, the value v of a number.
TokNum(v) == [k |-> "num", o |-> "", s |-> <<>>, v |-> v]
TokStr(s) == [k |-> "str", o |-> "", s |-> s, v |-> VNone]
TokName(s) == [k |-> "name", o |-> "", s |-> s, v |-> VNone]
TokOp(o) == [k |-> "op", o |-> o, s |-> <<>>, v |-> VNone]

\* the value of a run of decimal digits
RECURSIVE DigitsVal(_)
DigitsVal(ds) ==
    IF ds = <<>> THEN 0
    ELSE 10 * DigitsVal(SubSeq(ds, 1, Len(ds) - 1)) + DigitVal(ds[Len(ds)])

Openers == {"(", "[", "{"}
Closers == {")", "]", "}"}
SingleOps == {"+", "-", "%", "(", ")", "[", "]", "{", "}", ",", "&", "<"}

\* The characters the tokenizer is defined on.
Alphabet == IdentChars \cup Spaces \cup SingleOps \cup {"*", "/", ".", "!", "$", SQ, DQ}

\* position of the quote that closes a string literal opened at i (0: none on
\* this line)
ClosingQuote(s, i) ==
    LET C == {j \in (i + 1)..Len(s) :
                 s[j] = s[i] /\ \A m \in (i + 1)..(j - 1) : s[m] # s[i] /\ s[m] # NL}
    IN  IF C = {} THEN 0 ELSE Max(C)

TokFail == [ok |-> FALSE, toks |-> <<>>]

\* Python's tokenizer on the text from position i, for the expression grammar:
\* depth is the bracket depth, toks the tokens read so far.  Covered lexical
\* forms: decimal integers and point floats, names, '...' and "..." literals on
\* one line, the operators of SingleOps and * ** / //.  Outside brackets a
\* line must start in column 0 unless it is blank and ended by a newline (else
\* IndentationError); a newline after the first token ends the expression and
\* only blank lines may follow.
RECURSIVE TokenizeFrom(_, _, _, _)
TokenizeFrom(s, i, depth, toks) ==
    IF i > Len(s) THEN [ok |-> TRUE, toks |-> toks]
    ELSE LET c == s[i] IN
      CASE c = " " ->
             LET n == RunLen(s, i, {" "})
                 atLineStart == depth = 0 /\ (i = 1 \/ s[i - 1] = NL)
                 blankLine == i + n <= Len(s) /\ s[i + n] = NL
             IN  IF atLineStart /\ ~blankLine
                 THEN TokFail
                 ELSE TokenizeFrom(s, i + n, depth, toks)
        [] c = NL ->
             IF depth > 0 \/ toks = <<>> THEN TokenizeFrom(s, i + 1, depth, toks)
             ELSE IF RunLen(s, i, Spaces) = Len(s) - i + 1 /\ s[Len(s)] = NL
                  THEN [ok |-> TRUE, toks |-> toks]
                  ELSE TokFail
        [] c \in Digits \/ (c = "." /\ i < Len(s) /\ s[i + 1] \in Digits) ->
             LET n == RunLen(s, i, Digits)
                 hasPoint == i + n <= Len(s) /\ s[i + n] = "."
                 m == IF hasPoint THEN RunLen(s, i + n + 1, Digits) ELSE 0
                 end == IF hasPoint THEN i + n + 1 + m ELSE i + n
                 ip == DigitsVal(SubSeq(s, i, i + n - 1))
                 fp == DigitsVal(SubSeq(s, i + n + 1, i + n + m))
             IN  IF end <= Len(s) /\ s[end] \in IdentChars \cup {"."} THEN TokFail
                 ELSE IF hasPoint
                      THEN TokenizeFrom(s, end, depth,
                               Append(toks, TokNum(VFloat(ip * IntPow(10, m) + fp, IntPow(10, m)))))
                 ELSE IF n > 1 /\ s[i] = "0" /\ ip # 0 THEN TokFail
                 ELSE TokenizeFrom(s, end, depth, Append(toks, TokNum(VInt(ip))))
        [] c \in IdentChars \ Digits ->
             LET n == RunLen(s, i, IdentChars)
             IN  TokenizeFrom(s, i + n, depth, Append(toks, TokName(SubSeq(s, i, i + n - 1))))
        [] c \in {SQ, DQ} ->
             LET j == ClosingQuote(s, i)
             IN  IF j = 0 THEN TokFail
                 ELSE TokenizeFrom(s, j + 1, depth, Append(toks, TokStr(SubSeq(s, i + 1, j - 1))))
        [] c \in {"*", "/"} ->
             IF i < Len(s) /\ s[i + 1] = c
             THEN TokenizeFrom(s, i + 2, depth, Append(toks, TokOp(c \o c)))
             ELSE TokenizeFrom(s, i + 1, depth, Append(toks, TokOp(c)))
        [] c \in Openers -> TokenizeFrom(s, i + 1, depth + 1, Append(toks, TokOp(c)))
        [] c \in Closers ->
             IF depth = 0 THEN TokFail
             ELSE TokenizeFrom(s, i + 1, depth - 1, Append(toks, TokOp(c)))
        [] c \in SingleOps \ (Openers \cup Closers) ->
             TokenizeFrom(s, i + 1, depth, Append(toks, TokOp(c)))
        [] c \in {"!", "$"} \/ (c = "." /\ ~(i < Len(s) /\ s[i + 1] \in Digits)) -> TokFail

Tokenize(s) == TokenizeFrom(s, 1, 0, <<>>)

\* ---------------------------------------------------------- ast.parse

\* Syntax-tree nodes: [kind |-> "Constant", value], [kind |-> "BinOp", op,
\* left, right], and for every other node class its kind alone.
Constant(v) == [kind |-> "Constant", value |-> v]
BinOp(op, l, r) == [kind |-> "BinOp", op |-> op, left |-> l, right |-> r]
Other(kind) == [kind |-> kind]

\* the ast operator class of a binary operator token
OpClass(o) ==
    CASE o = "+" -> "Add" [] o = "-" -> "Sub" [] o = "*" -> "Mult"
      [] o = "/" -> "Div" [] o = "**" -> "Pow" [] o = "//" -> "FloorDiv"
      [] o = "%" -> "Mod" [] o = "&" -> "BitAnd"

\* the left-associative binary levels of the grammar, loosest first
LevelOps(level) ==
    CASE level = 1 -> {"<"}
      [] level = 2 -> {"&"}
      [] level = 3 -> {"+", "-"}
      [] level = 4 -> {"*", "/", "//", "%"}

Parsed(node, pos) == [ok |-> TRUE, node |-> node, pos |-> pos, count |-> 0, trailing |-> FALSE]
SyntaxError == [ok |-> FALSE, node |-> Other("none"), pos |-> 0, count |-> 0, trailing |-> FALSE]
\* the result of an element list: the position after the closing bracket, the
\* number of elements, whether a comma ended the list
Listed(pos, count, trailing) ==
    [ok |-> TRUE, node |-> Other("none"), pos |-> pos, count |-> count, trailing |-> trailing]

IsOp(toks, pos, ops) == pos <= Len(toks) /\ toks[pos].k = "op" /\ toks[pos].o \in ops

CloserOf(o) == CASE o = "(" -> ")" [] o = "[" -> "]" [] o = "{" -> "}"

TrueName == <<"T", "r", "u", "e">>
FalseName == <<"F", "a", "l", "s", "e">>
NoneName == <<"N", "o", "n", "e">>

\* The recursive-descent parser of the expression grammar, one operator with
\* one case per grammar rule; x and y are the rule's own arguments.
RECURSIVE Parse(_, _, _, _, _)
Parse(rule, toks, pos, x, y) ==
    CASE rule = "bin" ->
           \* one binary level x: operand (operator operand)*
           IF x > 4 THEN Parse("factor", toks, pos, 0, 0)
           ELSE LET l == Parse("bin", toks, pos, x + 1, 0)
                IN  IF l.ok THEN Parse("binloop", toks, l.pos, l.node, x) ELSE l
      [] rule = "binloop" ->
           \* x is the left operand read so far, y the level
           IF IsOp(toks, pos, LevelOps(y))
           THEN LET r == Parse("bin", toks, pos + 1, y + 1, 0)
                    node == IF y = 1 THEN Other("Compare")
                            ELSE BinOp(OpClass(toks[pos].o), x, r.node)
                IN  IF r.ok THEN Parse("binloop", toks, r.pos, node, y) ELSE r
           ELSE Parsed(x, pos)
      [] rule = "factor" ->
           \* factor: ('+' | '-') factor | power
           IF IsOp(toks, pos, {"+", "-"})
           THEN LET f == Parse("factor", toks, pos + 1, 0, 0)
                IN  IF f.ok THEN Parsed(Other("UnaryOp"), f.pos) ELSE f
           ELSE Parse("power", toks, pos, 0, 0)
      [] rule = "power" ->
           \* power: atom trailer* ['**' factor]
           LET a == Parse("atom", toks, pos, 0, 0)
               b == Parse("trailers", toks, a.pos, a.node, 0)
               e == Parse("factor", toks, b.pos + 1, 0, 0)
           IN  IF ~a.ok THEN a
               ELSE IF ~b.ok THEN b
               ELSE IF IsOp(toks, b.pos, {"**"})
                    THEN (IF e.ok THEN Parsed(BinOp("Pow", b.node, e.node), e.pos) ELSE e)
               ELSE b
      [] rule = "trailers" ->
           \* trailer: '(' [arguments] ')' is a Call, '[' subscripts ']' a
           \* Subscript; x is the node the trailers apply to
           IF IsOp(toks, pos, {"(", "["})
           THEN LET es == Parse("elems", toks, pos + 1, CloserOf(toks[pos].o), 0)
                IN  IF ~es.ok \/ (toks[pos].o = "[" /\ es.count = 0) THEN SyntaxError
                    ELSE Parse("trailers", toks, es.pos,
                               Other(IF toks[pos].o = "(" THEN "Call" ELSE "Subscript"), 0)
           ELSE Parsed(x, pos)
      [] rule = "strings" ->
           \* adjacent string literals are concatenated; x is the text so far
           IF pos <= Len(toks) /\ toks[pos].k = "str"
           THEN Parse("strings", toks, pos + 1, x \o toks[pos].s, 0)
           ELSE Parsed(Constant(VStr(x)), pos)
      [] rule = "elems" ->
           \* expr (',' expr)* [','] up to the closing bracket x; y elements
           \* have been read
           IF IsOp(toks, pos, {x}) THEN Listed(pos + 1, y, FALSE)
           ELSE LET e == Parse("bin", toks, pos, 1, 0)
                IN  IF ~e.ok THEN SyntaxError
                    ELSE IF IsOp(toks, e.pos, {x}) THEN Listed(e.pos + 1, y + 1, FALSE)
                    ELSE IF IsOp(toks, e.pos, {","})
                         THEN (IF IsOp(toks, e.pos + 1, {x})
                               THEN Listed(e.pos + 2, y + 1, TRUE)
                               ELSE Parse("elems", toks, e.pos + 1, x, y + 1))
                    ELSE SyntaxError
      [] rule = "atom" ->
           IF pos > Len(toks) THEN SyntaxError
           ELSE LET tk == toks[pos] IN
             CASE tk.k = "num" -> Parsed(Constant(tk.v), pos + 1)
               [] tk.k = "str" -> Parse("strings", toks, pos, <<>>, 0)
               [] tk.k = "name" ->
                    Parsed(CASE tk.s = TrueName -> Constant(VBool(TRUE))
                             [] tk.s = FalseName -> Constant(VBool(FALSE))
                             [] tk.s = NoneName -> Constant(VNone)
                             [] OTHER -> Other("Name"), pos + 1)
               [] tk.k = "op" /\ tk.o = "(" ->
                    \* (e) is e itself; () and (e,) and (e, e) are Tuples
                    LET es == Parse("elems", toks, pos + 1, ")", 0)
                        e == Parse("bin", toks, pos + 1, 1, 0)
                    IN  IF ~es.ok THEN SyntaxError
                        ELSE IF es.count = 1 /\ ~es.trailing THEN Parsed(e.node, es.pos)
                        ELSE Parsed(Other("Tuple"), es.pos)
               [] tk.k = "op" /\ tk.o \in {"[", "{"} ->
                    LET es == Parse("elems", toks, pos + 1, CloserOf(tk.o), 0)
                    IN  IF ~es.ok THEN SyntaxError
                        ELSE Parsed(Other(IF tk.o = "[" THEN "List"
                                          ELSE IF es.count = 0 THEN "Dict" ELSE "Set"),
                                    es.pos)
               [] OTHER -> SyntaxError

\* the token that stands for the end of the text
EndMarker == TokOp("")

\* ast.parse(expr, mode='eval').body: an expression list up to the end of the
\* text; a top-level comma makes a Tuple
AstParse(s) ==
    LET tz == Tokenize(s)
        toks == Append(tz.toks, EndMarker)
        es == Parse("elems", toks, 1, "", 0)
        e == Parse("bin", toks, 1, 1, 0)
    IN  IF ~tz.ok \/ ~es.ok \/ es.count = 0 THEN SyntaxError
        ELSE IF es.count = 1 /\ ~es.trailing THEN Parsed(e.node, es.pos)
        ELSE Parsed(Other("Tuple"), es.pos)

\* -------------------------------------------------------- eval_expr

\* _eval(node): the operands are evaluated before the operator is looked up
RECURSIVE Eval(_)
Eval(node) ==
    CASE node.kind = "Constant" -> Ok(node.value)
      [] node.kind = "BinOp" ->
           LET left == Eval(node.left)
               right == Eval(node.right)
           IN  IF ~left.ok THEN left
               ELSE IF ~right.ok THEN right
               ELSE IF node.op \notin operators THEN Raise("KeyError")
               ELSE ApplyOperator(node.op, left.v, right.v)
      [] OTHER -> Raise("TypeError")

eval_expr(expr) ==
    LET tree == AstParse(expr)
    IN  IF tree.ok THEN Eval(tree.node) ELSE Raise("SyntaxError")

\* ------------------------------------------------------- JSON values

\* The value json.loads hands to parse_json, tagged with its Python type:
\* [py, items, n, s] with the (key, value) pairs of a dict in document order,
\* the integer of an int (0/1 for a bool) and the text of a str.
JDict(items) == [py |-> "dict", items |-> items, n |-> 0, s |-> <<>>]
JInt(n) == [py |-> "int", items |-> <<>>, n |-> n, s |-> <<>>]
JBool(b) == [py |-> "bool", items |-> <<>>, n |-> IF b THEN 1 ELSE 0, s |-> <<>>]
JStr(s) == [py |-> "str", items |-> <<>>, n |-> 0, s |-> s]
JFloat == [py |-> "float", items |-> <<>>, n |-> 0, s |-> <<>>]
JNull == [py |-> "NoneType", items |-> <<>>, n |-> 0, s |-> <<>>]
JList == [py |-> "list", items |-> <<>>, n |-> 0, s |-> <<>>]
NoValue == [py |-> "", items |-> <<>>, n |-> 0, s |-> <<>>]

\* isinstance(value, int): bool is a subclass of int
IsInstanceInt(v) == v.py \in {"int", "bool"}

\* --------------------------------------------------------- input texts

K_define == <<"d", "e", "f", "i", "n", "e">>
K_A == <<"A">>
K_B == <<"B">>
K_A_B == <<"A", "_", "B">>
K_Ab == <<"A", "b">>
K_A_nl == <<"A", NL>>
K_empty == <<>>
K_CONFIG == <<"C", "O", "N", "F", "I", "G">>
K_SETTING == <<"S", "E", "T", "T", "I", "N", "G">>
K_NESTED == <<"N", "E", "S", "T", "E", "D">>
K_VALUE == <<"V", "A", "L", "U", "E">>
N_N == <<"N">>
D_N_5 == <<"(", "d", "e", "f", "i", "n", "e", " ", "N", " ", "5", ")">>
D_N_7 == <<"(", "d", "e", "f", "i", "n", "e", " ", "N", " ", "7", ")">>
D_PI == <<"(", "d", "e", "f", "i", "n", "e", " ", "P", "I", " ", "3", ".", "1", "4", ")">>
D_N_str == <<"(", "d", "e", "f", "i", "n", "e", " ", "N", " ", SQ, "]", SQ, ")">>
D_N_tok == <<"(", "d", "e", "f", "i", "n", "e", " ", "N", " ", "!", "{", "P", "I", "}", ")">>
D_invalidName == <<"(", "d", "e", "f", "i", "n", "e", " ", "i", "n", "v", "a", "l", "i", "d", "N", "a", "m", "e", " ", "4", "2", ")">>
D_noparen == <<"d", "e", "f", "i", "n", "e", " ", "N", " ", "5">>
D_novalue == <<"(", "d", "e", "f", "i", "n", "e", " ", "N", ")">>
D_blank == <<"(", "d", "e", "f", "i", "n", "e", " ", "N", " ", " ", ")">>
D_spaces == <<"(", "d", "e", "f", "i", "n", "e", " ", " ", "N", " ", " ", " ", "5", " ", ")">>
D_lead == <<" ", "(", "d", "e", "f", "i", "n", "e", " ", "N", " ", "5", ")">>
V_42 == <<"4", "2">>
V_100 == <<"1", "0", "0">>
V_sum == <<"2", " ", "+", " ", "3", " ", "*", " ", "4">>
V_paren == <<"(", "2", " ", "+", " ", "3", ")", " ", "*", " ", "(", "4", " ", "-", " ", "1", ")">>
V_mod == <<"1", "0", " ", "%", " ", "3">>
V_pow == <<"2", " ", "*", "*", " ", "3">>
V_floordiv == <<"7", " ", "/", "/", " ", "2">>
V_div == <<"7", " ", "/", " ", "2">>
V_divzero == <<"1", " ", "/", " ", "0">>
V_float == <<"3", ".", "1", "4">>
V_neg == <<"1", " ", "-", " ", "3">>
V_incomplete == <<"2", " ", "+", " ">>
V_hello == <<"H", "e", "l", "l", "o", " ", "W", "o", "r", "l", "d">>
V_lead == <<" ", "1">>
V_empty == <<>>
V_strlit == <<SQ, "a", SQ>>
V_strbr == <<SQ, "]", SQ>>
V_strcat == <<SQ, "a", SQ, " ", "+", " ", SQ, "b", SQ>>
V_true == <<"T", "r", "u", "e">>
V_none == <<"N", "o", "n", "e">>
V_name == <<"x">>
V_call == <<"f", "(", "1", ")">>
V_unary == <<"-", "1">>
V_list == <<"[", "1", "]">>
V_compare == <<"1", " ", "<", " ", "2">>
V_bitand == <<"1", " ", "&", " ", "2">>
V_tuple == <<"1", ",", " ", "2">>
V_close == <<"]">>
V_open == <<"$", "[">>
V_dq == <<DQ>>
V_useN == <<"!", "{", "N", "}">>
V_useN1 == <<"!", "{", "N", "}", " ", "+", " ", "1">>
V_useNN == <<"!", "{", "N", "}", "!", "{", "N", "}">>
V_usePI == <<"!", "{", "P", "I", "}">>
V_useBoth == <<"!", "{", "N", "}", " ", "+", " ", "!", "{", "P", "I", "}">>
V_notTok == <<"!", "{", "n", "}", " ", "!", "{", "}">>

\* ---------------------------------------------------------- parse_json

VARIABLES
    constants,  \* the module-level dict: constant name -> definition text
    doc,        \* the value of the running (or last) top-level parse_json call
    stack,      \* the active dict frames: the items iterated, the position of
                \* the for loop, the list `items` built so far
    cur,        \* the value a parse_json call has just been entered with
    status,     \* "idle", "running", "returned" or "raised"
    error,      \* the raise statement that ended the call
    result,     \* the text the top-level call returned
    calls,      \* number of top-level calls made in this process
    last,       \* the last entry or value handled: what it was and what came out
    log,        \* every (name, text) stored by a define entry, in order
    prev        \* how the previous top-level call ended: its status and error

\* top-level calls made in one process
MaxCalls == 2

vars == <<constants, doc, stack, cur, status, error, result, calls, last, log, prev>>

Frame(items) == [items |-> items, idx |-> 1, out |-> <<>>]

Top == stack[Len(stack)]
TopKey == Top.items[Top.idx][1]
TopVal == Top.items[Top.idx][2]

\* in a dict frame, about to run the loop body for the next (key, val)
AtEntry == status = "running" /\ cur = NoValue /\ stack # <<>> /\ Top.idx <= Len(Top.items)

Handled(op, key, val, text, out) ==
    [op |-> op, key |-> key, val |-> val, text |-> text, out |-> out]
Nothing == Handled("none", <<>>, NoValue, <<>>, <<>>)

RECURSIVE Join(_, _)
\* sep.join(items)
Join(items, sep) ==
    IF items = <<>> THEN <<>>
    ELSE IF Len(items) = 1 THEN items[1]
    ELSE items[1] \o sep \o Join(Tail(items), sep)

\* "$[\n" + ",\n".join(items) + "\n]"
DictText(items) == <<"$", "[", NL>> \o Join(items, <<",", NL>>) \o <<NL, "]">>

\* f" {key} : {parsed_value}"
ItemText(key, text) == <<" ">> \o key \o <<" ", ":", " ">> \o text

\* a parse_json call returns text: to the caller of the top-level call, or to
\* the loop body of the enclosing dict frame, which appends the item and moves on
Return(text, frames) ==
    IF frames = <<>>
    THEN /\ status' = "returned"
         /\ result' = text
         /\ stack' = <<>>
    ELSE LET f == frames[Len(frames)]
         IN  /\ stack' = [frames EXCEPT ![Len(frames)] =
                            [f EXCEPT !.out = Append(@, ItemText(f.items[f.idx][1], text)),
                                      !.idx = @ + 1]]
             /\ UNCHANGED <<status, result>>

\* an exception leaves every active frame; nothing is returned
RaiseError(e) ==
    /\ status' = "raised"
    /\ error' = e
    /\ stack' = <<>>
    /\ cur' = NoValue
    /\ UNCHANGED result

\* a call that starts from an empty store of its own
Call_FreshStore(d) ==
    /\ status \in {"idle", "returned", "raised"}
    /\ calls < MaxCalls
    /\ calls' = calls + 1
    /\ doc' = d
    /\ cur' = d
    /\ stack' = <<>>
    /\ status' = "running"
    /\ error' = "none"
    /\ result' = <<>>
    /\ last' = Nothing
    /\ prev' = <<status, error>>
    /\ constants' = <<>>
    /\ UNCHANGED log

\* a caller invokes parse_json(d); the module-level constants are as they are
Call(d) ==
    /\ status \in {"idle", "returned", "raised"}
    /\ calls < MaxCalls
    /\ calls' = calls + 1
    /\ doc' = d
    /\ cur' = d
    /\ stack' = <<>>
    /\ status' = "running"
    /\ error' = "none"
    /\ result' = <<>>
    /\ last' = Nothing
    /\ prev' = <<status, error>>
    /\ UNCHANGED <<constants, log>>

\* isinstance(value, dict): items = [] and the loop starts
EnterDict ==
    /\ status = "running" /\ cur.py = "dict"
    /\ stack' = Append(stack, Frame(cur.items))
    /\ cur' = NoValue
    /\ last' = Nothing
    /\ UNCHANGED <<constants, doc, status, error, result, calls, log, prev>>

\* loop body, key == "define": register the constant, never append an item
DefineEntry ==
    /\ AtEntry /\ TopKey = K_define
    /\ LET val == TopVal
           m == DefineMatch(val.s)
           text == Strip(m.value)
       IN  IF val.py # "str"
           THEN \* re.match raises TypeError on a value that is not text
                /\ RaiseError("TypeError")
                /\ last' = Handled("define", TopKey, val, <<>>, <<>>)
                /\ UNCHANGED <<constants, log>>
           ELSE IF m.matched /\ ~NamePatternMatch(m.name)
           THEN /\ RaiseError("InvalidConstantName")
                /\ last' = Handled("define", TopKey, val, <<>>, <<>>)
                /\ UNCHANGED <<constants, log>>
           ELSE /\ constants' = IF m.matched THEN StorePut(constants, m.name, text)
                                ELSE constants
                /\ log' = IF m.matched THEN Append(log, <<m.name, text>>) ELSE log
                /\ stack' = [stack EXCEPT ![Len(stack)].idx = @ + 1]
                /\ last' = Handled("define", TopKey, val, <<>>, <<>>)
                /\ UNCHANGED <<cur, status, error, result>>
    /\ UNCHANGED <<doc, calls, prev>>

\* loop body, any other key: validate it, then call parse_json(val)
KeyEntry ==
    /\ AtEntry /\ TopKey # K_define
    /\ IF ~NamePatternMatch(TopKey)
       THEN /\ RaiseError("InvalidName")
            /\ last' = Handled("key", TopKey, TopVal, <<>>, <<>>)
       ELSE /\ cur' = TopVal
            /\ last' = Handled("key", TopKey, TopVal, <<>>, <<>>)
            /\ UNCHANGED <<stack, status, error, result>>
    /\ UNCHANGED <<constants, doc, calls, log, prev>>

\* the loop is over: return "$[\n" + ",\n".join(items) + "\n]"
ReturnDict ==
    /\ status = "running" /\ cur = NoValue /\ stack # <<>> /\ Top.idx > Len(Top.items)
    /\ Return(DictText(Top.out), SubSeq(stack, 1, Len(stack) - 1))
    /\ last' = Handled("dict", <<>>, NoValue, <<>>, DictText(Top.out))
    /\ UNCHANGED <<constants, doc, cur, error, calls, log, prev>>

\* isinstance(value, int): return str(value)
ReturnInt ==
    /\ status = "running" /\ cur.py # "dict" /\ IsInstanceInt(cur)
    /\ LET out == IF cur.py = "bool" THEN PyStr(VBool(cur.n = 1)) ELSE IntToStr(cur.n)
       IN  /\ Return(out, stack)
           /\ last' = Handled("int", <<>>, cur, <<>>, out)
    /\ cur' = NoValue
    /\ UNCHANGED <<constants, doc, error, calls, log, prev>>

\* isinstance(value, str): substitute the constants, then evaluate or quote
ReturnStr ==
    /\ status = "running" /\ cur.py # "dict" /\ ~IsInstanceInt(cur) /\ cur.py = "str"
    /\ LET value == Substitute(cur.s, constants)
           computed == eval_expr(value)
           out == IF computed.ok THEN PyStr(computed.v) ELSE <<DQ>> \o value \o <<DQ>>
       IN  /\ Return(out, stack)
           /\ last' = Handled("str", <<>>, cur, value, out)
    /\ cur' = NoValue
    /\ UNCHANGED <<constants, doc, error, calls, log, prev>>

\* else: raise ValueError(f"Unsupported value type: {value}")
RaiseUnsupported ==
    /\ status = "running" /\ cur # NoValue
    /\ cur.py # "dict" /\ ~IsInstanceInt(cur) /\ cur.py # "str"
    /\ RaiseError("UnsupportedType")
    /\ last' = Handled("unsupported", <<>>, cur, <<>>, <<>>)
    /\ UNCHANGED <<constants, doc, calls, log, prev>>

\* ------------------------------------------------------------ inputs

StringTexts ==
    {V_42, V_100, V_sum, V_paren, V_mod, V_pow, V_floordiv, V_div, V_divzero,
     V_float, V_neg, V_incomplete, V_hello, V_lead, V_empty, V_strlit, V_strbr,
     V_strcat, V_true, V_none, V_name, V_call, V_unary, V_list, V_compare,
     V_bitand, V_tuple, V_close, V_open, V_dq, V_useN, V_useN1, V_useNN,
     V_usePI, V_useBoth, V_notTok}

UseTexts == {V_useN, V_useN1, V_useNN, V_usePI, V_useBoth}

DefineTexts ==
    {D_N_5, D_N_7, D_PI, D_N_str, D_N_tok, D_invalidName, D_noparen, D_novalue,
     D_blank, D_spaces, D_lead}

Scalars ==
    {JStr(s) : s \in StringTexts}
    \cup {JInt(100), JInt(0), JInt(-5), JBool(TRUE), JBool(FALSE), JFloat, JNull, JList}

Dict1(k, v) == JDict(<<<<k, v>>>>)
Dict2(k1, v1, k2, v2) == JDict(<<<<k1, v1>>, <<k2, v2>>>>)

\* {"CONFIG": {"SETTING": "42", "NESTED": {"VALUE": "100"}}}
NestedDoc ==
    Dict1(K_CONFIG, Dict2(K_SETTING, JStr(V_42), K_NESTED, Dict1(K_VALUE, JStr(V_100))))

NestedDocs ==
    {NestedDoc,
     JDict(<<>>),
     Dict1(K_A, JDict(<<>>)),
     Dict1(K_A, Dict1(K_B, JNull)),
     Dict1(K_A, Dict1(K_Ab, JInt(1))),
     Dict1(K_A, Dict1(K_B, Dict1(K_A, JStr(V_close)))),
     Dict1(K_define, Dict1(K_Ab, JInt(1))),
     Dict1(K_define, JInt(5)),
     Dict1(K_define, JList),
     Dict2(K_A, JInt(1), K_Ab, JInt(2)),
     Dict2(K_A, JNull, K_Ab, JInt(1)),
     Dict2(K_define, JInt(5), K_A, JInt(1)),
     Dict2(K_define, JStr(D_N_5), K_Ab, JInt(1)),
     Dict2(K_define, JStr(D_PI), K_A, JNull),
     Dict2(K_A, Dict1(K_define, JStr(D_N_5)), K_B, JStr(V_useN1)),
     Dict2(K_A, Dict2(K_define, JStr(D_N_5), K_B, Dict1(K_A, JStr(V_useN))),
           K_B, Dict2(K_define, JStr(D_N_7), K_A, JStr(V_useNN)))}

\* the values given to parse_json: top-level scalars, one-entry objects over
\* every key and scalar, a define entry before or after a use, nested objects
Docs ==
    Scalars
    \cup {Dict1(K_A, v) : v \in Scalars}
    \cup {Dict1(k, v) : k \in {K_A_B, K_Ab, K_A_nl, K_empty}, v \in {JInt(100), JStr(V_42), JNull}}
    \cup {Dict2(K_define, JStr(d), K_A, JStr(u)) : d \in DefineTexts, u \in UseTexts}
    \cup {Dict2(K_A, JStr(u), K_define, JStr(d)) : d \in {D_N_5, D_PI}, u \in UseTexts}
    \cup NestedDocs

\* -------------------------------------------------------- the process

Init ==
    /\ constants = <<>>
    /\ doc = NoValue
    /\ stack = <<>>
    /\ cur = NoValue
    /\ status = "idle"
    /\ error = "none"
    /\ result = <<>>
    /\ calls = 0
    /\ last = Nothing
    /\ log = <<>>
    /\ prev = <<"idle", "none">>

Next ==
    \/ \E d \in Docs : Call(d)
    \/ EnterDict
    \/ DefineEntry
    \/ KeyEntry
    \/ ReturnDict
    \/ ReturnInt
    \/ ReturnStr
    \/ RaiseUnsupported

Spec == Init /\ [][Next]_vars

\* ------------------------------------------------------ the properties

Finished == status \in {"returned", "raised"}

\* the pattern ^[A-Z_]+$ read on its own: one or more characters of [A-Z_]
\* up to the end of the text or up to one final newline
MatchesNamePattern(s) ==
    \E n \in 1..Len(s) :
        /\ \A i \in 1..n : s[i] \in UpperOrUnderscore
        /\ \/ n = Len(s)
           \/ n = Len(s) - 1 /\ s[Len(s)] = NL

\* the errors the specification calls InvalidName
InvalidNameErrors == {"InvalidName", "InvalidConstantName"}

\* the shape (define <NAME> <REST>): "(define", white space, a name of
\* characters that are not white space, white space, a rest of at least one
\* character, ")"
ShapeNameAt(s) == 8 + RunLen(s, 8, Spaces)
ShapeNameLen(s) == RunLen(s, ShapeNameAt(s), Alphabet \ Spaces)
ShapeName(s) == SubSeq(s, ShapeNameAt(s), ShapeNameAt(s) + ShapeNameLen(s) - 1)
HasDefineShape(s) ==
    LET restAt == ShapeNameAt(s) + ShapeNameLen(s)
    IN  /\ StartsWithAt(s, 1, <<"(", "d", "e", "f", "i", "n", "e">>)
        /\ ShapeNameAt(s) > 8
        /\ ShapeNameLen(s) >= 1
        /\ restAt < Len(s)
        /\ s[restAt] \in Spaces
        /\ \E r \in (restAt + 2)..Len(s) : s[r] = ")"

\* C1: an entry "define" whose value has the shape (define <NAME> <REST>) with
\* a NAME that does not match ^[A-Z_]+$ makes the call fail with InvalidName.
C1_InvalidConstantNameRaises ==
    (/\ last.op = "define"
     /\ last.val.py = "str"
     /\ HasDefineShape(last.val.s)
     /\ ~MatchesNamePattern(ShapeName(last.val.s)))
    => (status = "raised" /\ error \in InvalidNameErrors)

\* the JSON values that are neither an object, an integer nor a string
IsUnsupportedJson(v) == v.py \in {"float", "bool", "NoneType", "list"}

\* C2: every value that is not an object, an integer or a string, wherever
\* parse_json meets it, makes the call fail with UnsupportedType and nothing
\* is returned.
C2_UnsupportedValueRaises ==
    (last.op \in {"int", "str", "unsupported", "define"} /\ IsUnsupportedJson(last.val))
    => (status = "raised" /\ error = "UnsupportedType" /\ result = <<>>)

\* every key other than "define" of every object that is transformed matches
RECURSIVE AllKeysMatch(_)
AllKeysMatch(v) ==
    v.py = "dict" =>
        \A i \in 1..Len(v.items) :
            \/ v.items[i][1] = K_define
            \/ MatchesNamePattern(v.items[i][1]) /\ AllKeysMatch(v.items[i][2])

\* C3: a key other than "define" that does not match ^[A-Z_]+$ aborts the
\* whole call with InvalidName and nothing is returned, at any depth; a key
\* that matches is not rejected.
C3_KeyValidation ==
    /\ last.op = "key" =>
          IF MatchesNamePattern(last.key)
          THEN status = "running" /\ error = "none" /\ cur = last.val
          ELSE status = "raised" /\ error = "InvalidName" /\ stack = <<>>
    /\ status = "raised" => result = <<>>
    /\ status = "returned" => AllKeysMatch(doc)

\* an invalid key two objects deep has aborted the call
C3_Witness ==
    /\ doc = Dict1(K_A, Dict1(K_Ab, JInt(1)))
    /\ last.op = "key" /\ last.key = K_Ab
    /\ status = "raised" /\ error = "InvalidName"

\* a decimal numeral: [-] digits [. digits]
IsDecimalText(s) ==
    LET from == IF s # <<>> /\ s[1] = "-" THEN 2 ELSE 1
        n == RunLen(s, from, Digits)
        m == RunLen(s, from + n + 1, Digits)
    IN  /\ n >= 1
        /\ \/ from + n - 1 = Len(s)
           \/ /\ from + n <= Len(s) /\ s[from + n] = "."
              /\ m >= 1 /\ from + n + m = Len(s)

Quoted(s) == <<DQ>> \o s \o <<DQ>>

\* C4: a string value never raises; when the evaluator succeeds the output is
\* the decimal string of the numeric result, when it fails the output is the
\* substituted text in double quotes.
C4_StringOutput ==
    last.op = "str" =>
        /\ status # "raised"
        /\ IF eval_expr(last.text).ok
           THEN /\ eval_expr(last.text).v.t \in {"int", "float"}
                /\ IsDecimalText(last.out)
           ELSE last.out = Quoted(last.text)

\* the text test_nested_structure expects
NestedExpected ==
    <<"$", "[", NL, " ", "C", "O", "N", "F", "I", "G", " ", ":", " ", "$", 
      "[", NL, " ", "S", "E", "T", "T", "I", "N", "G", " ", ":", " ", DQ, 
      "4", "2", DQ, ",", NL, " ", "N", "E", "S", "T", "E", "D", " ", ":", 
      " ", "$", "[", NL, " ", "V", "A", "L", "U", "E", " ", ":", " ", DQ, 
      "1", "0", "0", DQ, NL, "]", NL, "]", NL, "]">>

\* C5: parse_json(NestedDoc) returns the text with "42" and "100" quoted.
C5_NestedNumeralsQuoted ==
    (Finished /\ doc = NestedDoc) => (status = "returned" /\ result = NestedExpected)

\* a tree made solely of numeric literals and binary operations with one of
\* the seven operators
RECURSIVE IsPureArithmetic(_)
IsPureArithmetic(node) ==
    CASE node.kind = "Constant" -> node.value.t \in {"int", "float"}
      [] node.kind = "BinOp" ->
           /\ node.op \in {"Add", "Sub", "Mult", "Div", "Pow", "FloorDiv", "Mod"}
           /\ IsPureArithmetic(node.left)
           /\ IsPureArithmetic(node.right)
      [] OTHER -> FALSE

\* C6: evaluation succeeds only on a tree of numeric literals and supported
\* binary operations; with any other node the value is emitted quoted.
C6_OnlyArithmeticEvaluates ==
    (last.op = "str" /\ AstParse(last.text).ok /\ ~IsPureArithmetic(AstParse(last.text).node))
    => (~eval_expr(last.text).ok /\ last.out = Quoted(last.text))

\* the length of NAME when a token !{NAME} starts at i, else 0
TokenLenAt(s, i) ==
    LET N == {n \in 1..Len(s) :
                 /\ i + 2 + n <= Len(s)
                 /\ s[i] = "!" /\ s[i + 1] = "{" /\ s[i + 2 + n] = "}"
                 /\ \A j \in (i + 2)..(i + 1 + n) : s[j] \in UpperOrUnderscore}
    IN  IF N = {} THEN 0 ELSE Min(N)

\* what the define entries handled so far, in this call or an earlier one,
\* have registered for a name: the text of the latest of them
IsDefined(name) == \E k \in 1..Len(log) : log[k][1] = name
DefinitionOf(name) == log[Max({k \in 1..Len(log) : log[k][1] = name})][2]

\* the text s from position p on with every token replaced by the definition
\* of its name, a token of an undefined name kept as it is
RECURSIVE ExpectedFrom(_, _)
ExpectedFrom(s, p) ==
    LET starts == {i \in p..Len(s) : TokenLenAt(s, i) > 0}
        i == Min(starts)
        name == SubSeq(s, i + 2, i + 1 + TokenLenAt(s, i))
        end == i + 2 + TokenLenAt(s, i)
    IN  IF starts = {} THEN Drop(s, p)
        ELSE SubSeq(s, p, i - 1)
             \o (IF IsDefined(name) THEN DefinitionOf(name) ELSE SubSeq(s, i, end))
             \o ExpectedFrom(s, end + 1)

\* C7: when a string is processed every !{NAME} token is replaced by the text
\* the latest define entry handled before it registered for NAME; a token of
\* a name not defined by then stays as it is, and nothing is raised.
C7_SubstitutionSeesEarlierDefines ==
    last.op = "str" =>
        /\ last.text = ExpectedFrom(last.val.s, 1)
        /\ status # "raised"

\* "!{N} + !{PI}" after (define N 5) alone: N is replaced, PI is left
C7_Witness ==
    /\ last.op = "str" /\ last.val.s = V_useBoth
    /\ log = <<<<N_N, <<"5">>>>>>
    /\ last.text = <<"5", " ", "+", " ", "!", "{", "P", "I", "}">>
    /\ last.out = Quoted(last.text)

\* the value of a define entry has the (define <NAME> <REST>) shape
MatchesDefineShape(v) == v.py = "str" /\ HasDefineShape(v.s)

\* C8: a "define" entry never adds an output item; when its value does not
\* have the (define <NAME> <REST>) shape the store is unchanged, nothing is
\* raised and the loop goes on to the next entry.
C8_DefineIgnored ==
    [][(AtEntry /\ TopKey = K_define) =>
          /\ status' = "running" => stack'[Len(stack')].out = Top.out
          /\ ~MatchesDefineShape(TopVal) =>
                /\ constants' = constants
                /\ status' = "running" /\ error' = "none"
                /\ Len(stack') = Len(stack)
                /\ stack'[Len(stack')].idx = Top.idx + 1]_vars

\* the nesting of "$[" and "]" in a text from position i on: whether every
\* closer has its opener and none stays open, and the deepest level reached
RECURSIVE Nesting(_, _, _, _)
Nesting(s, i, depth, deepest) ==
    IF i > Len(s) THEN [matched |-> depth = 0, deepest |-> deepest]
    ELSE IF StartsWithAt(s, i, <<"$", "[">>)
         THEN Nesting(s, i + 2, depth + 1, IF depth + 1 > deepest THEN depth + 1 ELSE deepest)
    ELSE IF s[i] = "]"
         THEN (IF depth = 0 THEN [matched |-> FALSE, deepest |-> deepest]
               ELSE Nesting(s, i + 1, depth - 1, deepest))
    ELSE Nesting(s, i + 1, depth, deepest)

\* the nesting depth of the objects that are transformed
RECURSIVE JsonDepth(_)
JsonDepth(v) ==
    IF v.py # "dict" THEN 0
    ELSE 1 + Max({0} \cup {JsonDepth(v.items[i][2]) :
                              i \in {j \in 1..Len(v.items) : v.items[j][1] # K_define}})

\* C9: the "$[" and "]" of the text returned for an object are matched and
\* nest as deep as the objects of the document.
C9_BracketsMatchObjects ==
    (status = "returned" /\ doc.py = "dict") =>
        /\ Nesting(result, 1, 0, 0).matched
        /\ Nesting(result, 1, 0, 0).deepest = JsonDepth(doc)

\* C10: the store is never rolled back: after an abort and across calls it
\* holds, for every name a define entry ever registered in this process, the
\* latest text registered; a call that follows an aborted one resolves its
\* tokens against these definitions.
C10_StoreSurvivesAbortAndCalls ==
    /\ DOMAIN constants = {log[k][1] : k \in 1..Len(log)}
    /\ \A name \in DOMAIN constants : constants[name] = DefinitionOf(name)
    /\ (prev[1] = "raised" /\ last.op = "str") =>
           last.out = LET text == ExpectedFrom(last.val.s, 1)
                      IN  IF eval_expr(text).ok THEN PyStr(eval_expr(text).v)
                          ELSE Quoted(text)

\* the first call defined N and then aborted on an invalid key; the second
\* call, which has no define entry, emits 6 for "!{N} + 1"
C10_Witness ==
    /\ calls = 2
    /\ prev = <<"raised", "InvalidName">>
    /\ doc = Dict1(K_A, JStr(V_useN1))
    /\ status = "returned"
    /\ result = DictText(<<ItemText(K_A, <<"6">>)>>)

====
